---- MODULE Spec2Model ----
(***************************************************************************)
(* Hedera MCP server (src/src/index.ts): process start-up, the two HTTP    *)
(* endpoints GET /sse and POST /messages, and the four registered tools    *)
(* create-wallet, check-balance, build-transaction and send-transaction.   *)
(*                                                                         *)
(* A tool handler runs synchronously up to its first await; every await    *)
(* of a ledger call (execute, getReceipt, freezeWith) is a suspension      *)
(* point that a later step resumes with a result or a failure.            *)
(***************************************************************************)
EXTENDS Integers, Sequences, FiniteSets, TLC

VARIABLES env, pc, hederaClient, transport, sseCount, posts, calls, events, ledger

vars == <<env, pc, hederaClient, transport, sseCount, posts, calls, events, ledger>>

(***************************************************************************)
(* Bounds of the model.                                                    *)
(***************************************************************************)
MaxPosts == 2
MaxSse == 2

(***************************************************************************)
(* JavaScript values that cross the tool boundary.  A string that names an *)
(* account carries its text in s; a string of base64 text carries its      *)
(* characters in chars: 0..63 is the base64 alphabet, 64 is "=", 65 is a   *)
(* character outside the alphabet.  A number is the rational num/den.      *)
(***************************************************************************)
Undefined == [t |-> "undefined"]
Str(s) == [t |-> "string", s |-> s]
Text(chars) == [t |-> "string", chars |-> chars]
Num(n, d) == [t |-> "number", num |-> n, den |-> d]

Neg(x) == Num(0 - x.num, x.den)
IsInteger(x) == x.num % x.den = 0

\* `!v` of JavaScript for an environment value: undefined and "" are falsy.
Truthy(v) == v.t = "string" /\ v.s # ""

(***************************************************************************)
(* Buffer <-> base64 text.                                                 *)
(***************************************************************************)
RECURSIVE toBase64(_)
toBase64(bytes) ==
    IF Len(bytes) = 0 THEN <<>>
    ELSE IF Len(bytes) = 1 THEN
        <<bytes[1] \div 4, (bytes[1] % 4) * 16, 64, 64>>
    ELSE IF Len(bytes) = 2 THEN
        <<bytes[1] \div 4, (bytes[1] % 4) * 16 + bytes[2] \div 16,
          (bytes[2] % 16) * 4, 64>>
    ELSE
        <<bytes[1] \div 4, (bytes[1] % 4) * 16 + bytes[2] \div 16,
          (bytes[2] % 16) * 4 + bytes[3] \div 64, bytes[3] % 64>>
        \o toBase64(SubSeq(bytes, 4, Len(bytes)))

\* The decoder never throws: it stops at the first "=", skips every
\* character outside the alphabet and drops a dangling single sextet.
RECURSIVE sextetsOf(_)
sextetsOf(chars) ==
    IF Len(chars) = 0 \/ chars[1] = 64 THEN <<>>
    ELSE IF chars[1] > 64 THEN sextetsOf(Tail(chars))
    ELSE <<chars[1]>> \o sextetsOf(Tail(chars))

RECURSIVE bytesOfSextets(_)
bytesOfSextets(sx) ==
    IF Len(sx) < 2 THEN <<>>
    ELSE IF Len(sx) = 2 THEN <<sx[1] * 4 + sx[2] \div 16>>
    ELSE IF Len(sx) = 3 THEN
        <<sx[1] * 4 + sx[2] \div 16, (sx[2] % 16) * 16 + sx[3] \div 4>>
    ELSE
        <<sx[1] * 4 + sx[2] \div 16, (sx[2] % 16) * 16 + sx[3] \div 4,
          (sx[3] % 4) * 64 + sx[4]>>
        \o bytesOfSextets(SubSeq(sx, 5, Len(sx)))

fromBase64(chars) == bytesOfSextets(sextetsOf(chars))

(***************************************************************************)
(* Account identifiers.  AccountId.fromString accepts "shard.realm.num"    *)
(* and throws on anything else; the accounts of the model live in shard 0, *)
(* realm 0.                                                                *)
(***************************************************************************)
AccountIdString(n) == "0.0." \o ToString(n)
AccountIdStrings == [n \in 0..15 |-> AccountIdString(n)]
ParsesAccountId(s) == \E n \in 0..15 : AccountIdStrings[n] = s
AccountNum(s) == CHOOSE n \in 0..15 : AccountIdStrings[n] = s

(***************************************************************************)
(* Transactions and their bytes.  A transfer transaction is its list of    *)
(* legs, the payer the client froze it for, and the signatures it carries, *)
(* each named by the account whose key made it.  The byte layout stands    *)
(* for the SDK's wire encoding: a tag byte, the payer, the number of legs, *)
(* seven bytes a leg (account, sign, four bytes of the numerator's         *)
(* magnitude, denominator), the number of signatures, and one byte a       *)
(* signature.  A leg's amount is the number handed to addHbarTransfer,     *)
(* which reads a bare number as a count of hbar.                           *)
(***************************************************************************)
\* One hbar in tinybars, the ledger's smallest unit.
TinybarsPerHbar == 100000000

\* Hbar.toTinybars of a count of hbar.
toTinybars(hbars) == (hbars.num * TinybarsPerHbar) \div hbars.den

NewTransferTransaction == [transfers |-> <<>>, frozen |-> FALSE, payer |-> 0, sigs |-> <<>>]

addHbarTransfer(tx, accountId, amount) ==
    [tx EXCEPT !.transfers = Append(@, [accountId |-> AccountNum(accountId), amount |-> amount])]

freezeWith(tx, client) ==
    [tx EXCEPT !.frozen = TRUE, !.payer = AccountNum(client.operatorId.s)]

Abs(n) == IF n < 0 THEN 0 - n ELSE n

magnitudeBytes(n) ==
    <<n \div 16777216, (n \div 65536) % 256, (n \div 256) % 256, n % 256>>

magnitudeOfBytes(b) == ((b[1] * 256 + b[2]) * 256 + b[3]) * 256 + b[4]

RECURSIVE legBytes(_)
legBytes(transfers) ==
    IF Len(transfers) = 0 THEN <<>>
    ELSE <<transfers[1].accountId, IF transfers[1].amount.num < 0 THEN 1 ELSE 0>>
         \o magnitudeBytes(Abs(transfers[1].amount.num))
         \o <<transfers[1].amount.den>>
         \o legBytes(Tail(transfers))

toBytes(tx) ==
    <<10, tx.payer, Len(tx.transfers)>> \o legBytes(tx.transfers)
        \o <<Len(tx.sigs)>> \o tx.sigs

RECURSIVE legsOfBytes(_)
legsOfBytes(bytes) ==
    IF Len(bytes) < 7 THEN <<>>
    ELSE <<[accountId |-> bytes[1],
            amount |-> Num(IF bytes[2] = 1
                           THEN 0 - magnitudeOfBytes(SubSeq(bytes, 3, 6))
                           ELSE magnitudeOfBytes(SubSeq(bytes, 3, 6)),
                           bytes[7])]>>
         \o legsOfBytes(SubSeq(bytes, 8, Len(bytes)))

\* What Transaction.fromBytes accepts; it throws on everything else.
IsTransactionBytes(bytes) ==
    /\ Len(bytes) >= 4
    /\ bytes[1] = 10
    /\ Len(bytes) >= 4 + 7 * bytes[3]
    /\ Len(bytes) = 4 + 7 * bytes[3] + bytes[4 + 7 * bytes[3]]
    /\ \A i \in 1..bytes[3] :
           /\ bytes[7 * i - 2] \in {0, 1}
           /\ bytes[7 * i - 1] < 128
           /\ bytes[7 * i + 3] >= 1

fromBytes(bytes) ==
    [transfers |-> legsOfBytes(SubSeq(bytes, 4, 3 + 7 * bytes[3])),
     frozen |-> TRUE, payer |-> bytes[2],
     sigs |-> SubSeq(bytes, 5 + 7 * bytes[3], Len(bytes))]

\* transaction.sign(privateKey): the signature of the account that owns the
\* key is appended, once.
sign(tx, account) ==
    IF \E k \in 1..Len(tx.sigs) : tx.sigs[k] = account
    THEN tx
    ELSE [tx EXCEPT !.sigs = Append(@, account)]

\* What execute(client) does to the transaction before it submits it: a
\* client that has an operator signs with the operator's key.
signWithOperator(tx, client) == sign(tx, AccountNum(client.operatorId.s))

\* The signatures the ledger asks of a transfer: the payer's and that of
\* every account the transfer debits.
RequiredSigners(tx) ==
    {tx.payer} \cup {tx.transfers[k].accountId : k \in {j \in 1..Len(tx.transfers) :
                                                        tx.transfers[j].amount.num < 0}}

Signers(tx) == {tx.sigs[k] : k \in 1..Len(tx.sigs)}

(***************************************************************************)
(* Tool results.  A handler returns one text block; a failure (a schema    *)
(* mismatch, or anything a handler throws) reaches the client as an error  *)
(* payload that carries the failure's message.  kind records where the     *)
(* failure arose.                                                          *)
(***************************************************************************)
Success(text) == [isError |-> FALSE, content |-> <<[type |-> "text", text |-> text]>>]
Failure(kind, message) == [isError |-> TRUE, kind |-> kind, message |-> message]

NoLocals == [none |-> TRUE]
NoResult == [none |-> TRUE]

\* A handler that has returned or thrown, and one suspended at an await.
Done(result, gateway) ==
    [pc |-> "done", local |-> NoLocals, gateway |-> gateway, result |-> result]
Await(at, local, gateway) ==
    [pc |-> at, local |-> local, gateway |-> gateway, result |-> NoResult]

(***************************************************************************)
(* The input schemas (zod): z.string() accepts every string, the empty one *)
(* included; z.number() accepts every number, fractions included.          *)
(***************************************************************************)
zString(v) == v.t = "string"
zNumber(v) == v.t = "number"

checkBalanceSchema(args) == zString(args.accountId)

buildTransactionSchema(args) ==
    /\ zString(args.senderAccountId)
    /\ zString(args.recipientAccountId)
    /\ zNumber(args.amount)

sendTransactionSchema(args) == zString(args.signedTransaction)

SchemaAccepts(tool, args) ==
    CASE tool = "create-wallet" -> TRUE
      [] tool = "check-balance" -> checkBalanceSchema(args)
      [] tool = "build-transaction" -> buildTransactionSchema(args)
      [] tool = "send-transaction" -> sendTransactionSchema(args)

(***************************************************************************)
(* The handlers up to their first await.  A handler that throws before it  *)
(* awaits anything has issued no ledger call.                              *)
(***************************************************************************)
\* create-wallet: a fresh key (one per invocation), then await execute.
CreateWalletStart(id) ==
    Await("execute", [newPrivateKey |-> id], <<"AccountCreateTransaction.execute">>)

\* check-balance: setAccountId parses the identifier, then await execute.
CheckBalanceStart(args) ==
    IF ~ParsesAccountId(args.accountId.s)
    THEN Done(Failure("GatewayError", "failed to parse entity id"), <<>>)
    ELSE Await("execute", [accountId |-> args.accountId.s], <<"AccountBalanceQuery.execute">>)

\* build-transaction: the two legs, then await freezeWith.
\* Variant: the debit leg is added without the negation.
BuildTransfer_Unnegated(senderAccountId, recipientAccountId, amount) ==
    addHbarTransfer(
        addHbarTransfer(NewTransferTransaction, senderAccountId, amount),
        recipientAccountId, amount)

BuildTransfer(senderAccountId, recipientAccountId, amount) ==
    addHbarTransfer(
        addHbarTransfer(NewTransferTransaction, senderAccountId, Neg(amount)),
        recipientAccountId, amount)

BuildTransactionStart(args) ==
    IF ~ParsesAccountId(args.senderAccountId.s) \/ ~ParsesAccountId(args.recipientAccountId.s)
    THEN Done(Failure("GatewayError", "failed to parse entity id"), <<>>)
    ELSE Await("freezeWith",
               [transferTx |-> BuildTransfer(args.senderAccountId.s,
                                             args.recipientAccountId.s, args.amount)],
               <<"TransferTransaction.freezeWith">>)

\* send-transaction: decode the text, rebuild the transaction, await execute.
\* Variant: the decode failure is swallowed and the submission goes ahead.
SendTransactionStart_SwallowDecode(args) ==
    LET txBytes == fromBase64(args.signedTransaction.chars)
    IN  Await("execute",
              [signedTx |-> IF IsTransactionBytes(txBytes) THEN fromBytes(txBytes)
                            ELSE NewTransferTransaction],
              <<"Transaction.execute">>)

SendTransactionStart(args) ==
    LET txBytes == fromBase64(args.signedTransaction.chars)
    IN  IF ~IsTransactionBytes(txBytes)
        THEN Done(Failure("DecodeError", "not transaction bytes"), <<>>)
        ELSE Await("execute", [signedTx |-> fromBytes(txBytes)], <<"Transaction.execute">>)

HandlerStart(id, tool, args) ==
    CASE tool = "create-wallet" -> CreateWalletStart(id)
      [] tool = "check-balance" -> CheckBalanceStart(args)
      [] tool = "build-transaction" -> BuildTransactionStart(args)
      [] tool = "send-transaction" -> SendTransactionStart(args)

\* The dispatch of one tool invocation: the schema first, then the handler.
Invoke(id, tool, args) ==
    IF SchemaAccepts(tool, args)
    THEN HandlerStart(id, tool, args)
    ELSE Done(Failure("ValidationError", "invalid arguments"), <<>>)

(***************************************************************************)
(* What the handlers return.                                               *)
(***************************************************************************)
EventsOf(id) == {i \in 1..Len(events) : events[i].id = id}
CallsOf(tool) == {id \in DOMAIN calls : calls[id].tool = tool}

\* receipt.accountId?.toString() || "unknown"
AccountIdOfReceipt(receipt) ==
    IF receipt.accountId = 0 THEN "unknown" ELSE AccountIdString(receipt.accountId)

\* Variant: the account and the key are returned as two blocks.
CreateWalletResult_TwoBlocks(local, receipt) ==
    [isError |-> FALSE,
     content |-> <<[type |-> "text", text |-> [accountId |-> AccountIdOfReceipt(receipt)]],
                   [type |-> "text", text |-> [privateKey |-> local.newPrivateKey]]>>]

CreateWalletResult(local, receipt) ==
    Success([accountId |-> AccountIdOfReceipt(receipt),
             evmAddress |-> <<"0x", local.newPrivateKey>>,
             privateKey |-> local.newPrivateKey])

\* Variant: the account identifier is kept in one variable shared by all
\* invocations, so a result names the account of the latest invocation.
CheckBalanceResult_SharedAccount(local, balance) ==
    LET latest == CHOOSE id \in CallsOf("check-balance") :
                      /\ checkBalanceSchema(calls[id].args)
                      /\ \A other \in CallsOf("check-balance") :
                             checkBalanceSchema(calls[other].args) => other <= id
    IN  Success([accountId |-> calls[latest].args.accountId.s, tinybars |-> balance])

CheckBalanceResult(local, balance) ==
    Success([accountId |-> local.accountId, tinybars |-> balance])

\* Variant: a failed query is reported as a balance of zero.
CheckBalanceResumed_ZeroOnFailure(local, answer) ==
    IF answer.ok
    THEN Done(CheckBalanceResult(local, answer.balance), <<>>)
    ELSE Done(CheckBalanceResult(local, 0), <<>>)

\* check-balance after its await: the text on an answer, the throw otherwise.
CheckBalanceResumed(local, answer) ==
    IF answer.ok
    THEN Done(CheckBalanceResult(local, answer.balance), <<>>)
    ELSE Done(Failure("GatewayError", answer.message), <<>>)

BuildTransactionResult(local, client) ==
    LET frozenTx == freezeWith(local.transferTx, client)
        txBytes == toBytes(frozenTx)
        base64Tx == toBase64(txBytes)
    IN  Success([base64 |-> base64Tx])

SendTransactionResult(status, transactionId) ==
    Success([status |-> status, transactionId |-> transactionId])

(***************************************************************************)
(* The inputs of the model.                                                *)
(***************************************************************************)
EnvValues ==
    [HEDERA_OPERATOR_ID : {Undefined, Str(""), Str("0.0.2")},
     HEDERA_OPERATOR_KEY : {Undefined, Str("302e")},
     HEDERA_NETWORK : {Undefined}]

\* Accounts 2 (the operator) and 3 exist from the start; 4 is unknown to the
\* ledger until create-wallet opens it.
InitialLedger == (2 :> 5) @@ (3 :> 7)

UnsignedExample ==
    [BuildTransfer("0.0.3", "0.0.2", Num(1, 1)) EXCEPT !.frozen = TRUE, !.payer = 2]

\* The transfer build-transaction makes of a negative amount: it debits the
\* recipient.
ReversedExample ==
    [BuildTransfer("0.0.3", "0.0.2", Num(-2, 1)) EXCEPT !.frozen = TRUE, !.payer = 2]

SignedTransactionValues ==
    { Text(toBase64(toBytes(UnsignedExample))),
      Text(toBase64(toBytes(sign(UnsignedExample, 3)))),
      Text(toBase64(toBytes(ReversedExample))),
      Text(<<2, 33, 65, 7>>) }

Requests ==
    [tool : {"create-wallet"}, args : {[none |-> TRUE]}]
    \cup [tool : {"check-balance"},
          args : [accountId : {Str("0.0.2"), Str("0.0.3"), Str("0.0.4"), Str(""),
                               Undefined}]]
    \cup [tool : {"build-transaction"},
          args : [senderAccountId : {Str("0.0.3")},
                  recipientAccountId : {Str("0.0.2")},
                  amount : {Num(1, 1), Num(-2, 1), Num(1, 2), Str("1")}]
                 \cup [senderAccountId : {Str("0.0.4")},
                       recipientAccountId : {Str("0.0.2")},
                       amount : {Num(TinybarsPerHbar, 1)}]]
    \cup [tool : {"send-transaction"}, args : [signedTransaction : SignedTransactionValues]]

(***************************************************************************)
(* Start-up (lines 19-30 and 158-161).                                     *)
(***************************************************************************)
NoClient == [constructed |-> FALSE]
NoTransport == [id |-> 0, started |-> FALSE, closed |-> FALSE]

\* process.env.HEDERA_NETWORK || "testnet"
hederaNetwork(e) == IF Truthy(e.HEDERA_NETWORK) THEN e.HEDERA_NETWORK.s ELSE "testnet"

\* Variant: && in place of ||.
CredentialsMissing_BothAbsent(e) ==
    ~Truthy(e.HEDERA_OPERATOR_ID) /\ ~Truthy(e.HEDERA_OPERATOR_KEY)

\* !operatorId || !operatorKey
CredentialsMissing(e) == ~Truthy(e.HEDERA_OPERATOR_ID) \/ ~Truthy(e.HEDERA_OPERATOR_KEY)

Init ==
    /\ env \in EnvValues
    /\ pc = "start"
    /\ hederaClient = NoClient
    /\ transport = NoTransport
    /\ sseCount = 0
    /\ posts = <<>>
    /\ calls = <<>>
    /\ events = <<>>
    /\ ledger = InitialLedger

\* The credential check: exit(1), or construct the client and set its operator.
Startup ==
    /\ pc = "start"
    /\ IF CredentialsMissing(env)
       THEN /\ pc' = "exited"
            /\ UNCHANGED hederaClient
       ELSE /\ pc' = "configured"
            /\ hederaClient' = [constructed |-> TRUE,
                                network |-> hederaNetwork(env),
                                operatorId |-> env.HEDERA_OPERATOR_ID,
                                operatorKey |-> env.HEDERA_OPERATOR_KEY]
    /\ UNCHANGED <<env, transport, sseCount, posts, calls, events, ledger>>

\* The tools are registered, the routes installed, and the server listens.
Listen ==
    /\ pc = "configured"
    /\ pc' = "listening"
    /\ UNCHANGED <<env, hederaClient, transport, sseCount, posts, calls, events, ledger>>

(***************************************************************************)
(* GET /sse (lines 140-148): a new transport replaces the binding; the     *)
(* connect of the MCP server to it may fail, which is only logged.         *)
(***************************************************************************)
\* Variant: a binding, once made, is kept.
SseGet_KeepFirst ==
    /\ pc = "listening"
    /\ sseCount < MaxSse
    /\ sseCount' = sseCount + 1
    /\ \E connected \in BOOLEAN :
           transport' = IF transport.id = 0
                        THEN [id |-> sseCount + 1, started |-> connected, closed |-> FALSE]
                        ELSE transport
    /\ UNCHANGED <<env, pc, hederaClient, posts, calls, events, ledger>>

SseGet ==
    /\ pc = "listening"
    /\ sseCount < MaxSse
    /\ sseCount' = sseCount + 1
    /\ \E connected \in BOOLEAN :
           transport' = [id |-> sseCount + 1, started |-> connected, closed |-> FALSE]
    /\ UNCHANGED <<env, pc, hederaClient, posts, calls, events, ledger>>

(***************************************************************************)
(* The client of the bound transport closes its stream (transport.close()  *)
(* in the client).  The server installs no handler for it (lines 137-156): *)
(* the variable keeps the transport, which has lost its response stream.   *)
(* Only a started transport listens to its stream; the closure of the      *)
(* stream of one that never started changes nothing.                       *)
(***************************************************************************)
\* Variant: the closure clears the binding.
CloseStream_Unbinds ==
    /\ pc = "listening"
    /\ transport.id # 0
    /\ transport.started
    /\ ~transport.closed
    /\ transport' = NoTransport
    /\ UNCHANGED <<env, pc, hederaClient, sseCount, posts, calls, events, ledger>>

CloseStream ==
    /\ pc = "listening"
    /\ transport.id # 0
    /\ transport.started
    /\ ~transport.closed
    /\ transport' = [transport EXCEPT !.closed = TRUE]
    /\ UNCHANGED <<env, pc, hederaClient, sseCount, posts, calls, events, ledger>>

(***************************************************************************)
(* POST /messages (lines 151-156).  With no transport bound nothing is     *)
(* done and no response is written.  A bound transport that was never      *)
(* started, or whose stream has closed, answers 500; a started one accepts *)
(* the message (202) and the invocation runs up to its first await.        *)
(***************************************************************************)
Dispatch(id, req) ==
    LET o == Invoke(id, req.tool, req.args)
    IN  /\ calls' = calls @@ (id :> [tool |-> req.tool, args |-> req.args,
                                     via |-> transport.id, pc |-> o.pc,
                                     local |-> o.local, gateway |-> o.gateway])
        /\ events' = IF o.pc = "done"
                     THEN Append(events, [id |-> id, stream |-> transport.id,
                                          result |-> o.result])
                     ELSE events

Posted(status) ==
    [to |-> transport.id, latest |-> sseCount, closed |-> transport.closed,
     status |-> status]

\* Variant: the message is dispatched whether or not a transport is bound.
PostMessages_NoGuard ==
    /\ pc = "listening"
    /\ Len(posts) < MaxPosts
    /\ posts' = Append(posts, Posted("202"))
    /\ \E req \in Requests : Dispatch(Len(posts) + 1, req)
    /\ UNCHANGED <<env, pc, hederaClient, transport, sseCount, ledger>>

PostMessages ==
    /\ pc = "listening"
    /\ Len(posts) < MaxPosts
    /\ IF transport.id = 0
       THEN /\ posts' = Append(posts, Posted("none"))
            /\ UNCHANGED <<calls, events>>
       ELSE IF ~transport.started \/ transport.closed
       THEN /\ posts' = Append(posts, Posted("500"))
            /\ UNCHANGED <<calls, events>>
       ELSE /\ posts' = Append(posts, Posted("202"))
            /\ \E req \in Requests : Dispatch(Len(posts) + 1, req)
    /\ UNCHANGED <<env, pc, hederaClient, transport, sseCount, ledger>>

(***************************************************************************)
(* The resumption of a suspended handler.  The ledger answers an awaited   *)
(* call with a result or with a failure; the handler catches nothing, so a *)
(* failure ends the invocation with the failure's message.                 *)
(***************************************************************************)
Settle(id, o) ==
    /\ calls' = [calls EXCEPT ![id].pc = o.pc, ![id].local = o.local,
                              ![id].gateway = @ \o o.gateway]
    /\ events' = IF o.pc = "done"
                 THEN Append(events, [id |-> id, stream |-> calls[id].via,
                                      result |-> o.result])
                 ELSE events

Suspended(id, tool, at) ==
    /\ id \in DOMAIN calls
    /\ calls[id].tool = tool
    /\ calls[id].pc = at

\* What the ledger may answer to a balance query.
QueryBalanceAnswers(accountNum) ==
    (IF accountNum \in DOMAIN ledger
     THEN {[ok |-> TRUE, balance |-> ledger[accountNum]]}
     ELSE {[ok |-> FALSE, message |-> "INVALID_ACCOUNT_ID"]})
    \cup {[ok |-> FALSE, message |-> "query failed"]}

NextAccountNum == Cardinality(DOMAIN ledger) + 2

\* create-wallet, line 62-65: the account is opened with the balance
\* setInitialBalance(1) names; the ledger keeps balances in tinybars.
CreateWalletExecuted(id) ==
    /\ Suspended(id, "create-wallet", "execute")
    /\ \/ /\ ledger' = ledger @@ (NextAccountNum :> toTinybars(Num(1, 1)))
          /\ Settle(id, Await("getReceipt",
                              [newPrivateKey |-> calls[id].local.newPrivateKey,
                               transaction |-> NextAccountNum],
                              <<"TransactionResponse.getReceipt">>))
       \/ /\ UNCHANGED ledger
          /\ Settle(id, Done(Failure("GatewayError", "account creation failed"), <<>>))
    /\ UNCHANGED <<env, pc, hederaClient, transport, sseCount, posts>>

\* Variant: the new account is made the client's operator.
CreateWalletReceipt_SetsOperator(id) ==
    /\ Suspended(id, "create-wallet", "getReceipt")
    /\ \/ /\ Settle(id, Done(CreateWalletResult(calls[id].local,
                                    [accountId |-> calls[id].local.transaction]), <<>>))
          /\ hederaClient' =
                 [hederaClient EXCEPT !.operatorId =
                                          Str(AccountIdString(calls[id].local.transaction))]
       \/ /\ Settle(id, Done(Failure("GatewayError", "receipt failed"), <<>>))
          /\ UNCHANGED hederaClient
    /\ UNCHANGED <<env, pc, transport, sseCount, posts, ledger>>

\* create-wallet, line 67-79.
CreateWalletReceipt(id) ==
    /\ Suspended(id, "create-wallet", "getReceipt")
    /\ \/ Settle(id, Done(CreateWalletResult(calls[id].local,
                                             [accountId |-> calls[id].local.transaction]),
                          <<>>))
       \/ Settle(id, Done(Failure("GatewayError", "receipt failed"), <<>>))
    /\ UNCHANGED <<env, pc, hederaClient, transport, sseCount, posts, ledger>>

\* check-balance, line 84-92: the query fails for an account the ledger
\* does not know, and may fail for any other reason.
CheckBalanceExecuted(id) ==
    /\ Suspended(id, "check-balance", "execute")
    /\ \E answer \in QueryBalanceAnswers(AccountNum(calls[id].local.accountId)) :
           Settle(id, CheckBalanceResumed(calls[id].local, answer))
    /\ UNCHANGED <<env, pc, hederaClient, transport, sseCount, posts, ledger>>

\* build-transaction, line 103-112.
BuildTransactionFrozen(id) ==
    /\ Suspended(id, "build-transaction", "freezeWith")
    /\ Settle(id, Done(BuildTransactionResult(calls[id].local, hederaClient), <<>>))
    /\ UNCHANGED <<env, pc, hederaClient, transport, sseCount, posts, ledger>>

\* What the ledger answers to a submission: it refuses a transaction that
\* lacks a required signature and takes the others, which may still fail at
\* their receipt.
SubmitAnswers(tx) ==
    IF RequiredSigners(tx) \subseteq Signers(tx)
    THEN {[ok |-> TRUE]}
    ELSE {[ok |-> FALSE, message |-> "INVALID_SIGNATURE"]}

\* send-transaction, line 122: execute signs with the client's operator and
\* submits; the submission is accepted or rejected.
SendTransactionExecuted(id) ==
    /\ Suspended(id, "send-transaction", "execute")
    /\ LET signedTx == calls[id].local.signedTx
               submitted == IF signedTx.payer = AccountNum(hederaClient.operatorId.s)
                            THEN signWithOperator(signedTx, hederaClient)
                            ELSE signedTx
       IN  \E answer \in SubmitAnswers(submitted) :
               IF answer.ok
               THEN Settle(id, Await("getReceipt", [signedTx |-> submitted],
                                     <<"TransactionResponse.getReceipt">>))
               ELSE Settle(id, Done(Failure("GatewayError", answer.message), <<>>))
    /\ UNCHANGED <<env, pc, hederaClient, transport, sseCount, posts, ledger>>

\* send-transaction, line 123-129.
SendTransactionReceipt(id) ==
    /\ Suspended(id, "send-transaction", "getReceipt")
    /\ \/ Settle(id, Done(SendTransactionResult("SUCCESS",
                              <<calls[id].local.signedTx.payer, id>>), <<>>))
       \/ Settle(id, Done(Failure("GatewayError", "receipt failed"), <<>>))
    /\ UNCHANGED <<env, pc, hederaClient, transport, sseCount, posts, ledger>>

Next ==
    \/ Startup
    \/ Listen
    \/ SseGet
    \/ CloseStream
    \/ PostMessages
    \/ \E id \in 1..MaxPosts : CreateWalletExecuted(id)
    \/ \E id \in 1..MaxPosts : CreateWalletReceipt(id)
    \/ \E id \in 1..MaxPosts : CheckBalanceExecuted(id)
    \/ \E id \in 1..MaxPosts : BuildTransactionFrozen(id)
    \/ \E id \in 1..MaxPosts : SendTransactionExecuted(id)
    \/ \E id \in 1..MaxPosts : SendTransactionReceipt(id)

Spec == Init /\ [][Next]_vars

(***************************************************************************)
(* Vocabulary of the properties.                                           *)
(***************************************************************************)
Succeeded(e) == ~e.result.isError
FailedWith(e, kind) == e.result.isError /\ e.result.kind = kind
TextOf(e) == e.result.content[1].text

\* Inputs build-transaction accepts and can build a transfer from.
BuildableInput(args) ==
    /\ buildTransactionSchema(args)
    /\ ParsesAccountId(args.senderAccountId.s)
    /\ ParsesAccountId(args.recipientAccountId.s)

\* Exactly a debit of amount on the sender, then a credit of amount on the
\* recipient, summing to zero.
LegsBalanced(tx, args) ==
    /\ Len(tx.transfers) = 2
    /\ tx.transfers[1] = [accountId |-> AccountNum(args.senderAccountId.s),
                          amount |-> Neg(args.amount)]
    /\ tx.transfers[2] = [accountId |-> AccountNum(args.recipientAccountId.s),
                          amount |-> args.amount]
    /\ tx.transfers[1].amount.den = tx.transfers[2].amount.den
    /\ tx.transfers[1].amount.num + tx.transfers[2].amount.num = 0

CredentialAbsent ==
    \/ env.HEDERA_OPERATOR_ID.t = "undefined"
    \/ env.HEDERA_OPERATOR_KEY.t = "undefined"

\* C2: with the operator account identifier or the operator private key
\* absent, the process never gets past its credential check: it terminates
\* there, constructs no ledger client and never listens, so it takes no
\* request.
C2_MissingCredentialsNeverListen ==
    CredentialAbsent =>
        /\ pc \in {"start", "exited"}
        /\ pc = "start" => ENABLED Startup
        /\ hederaClient = NoClient
        /\ transport = NoTransport /\ sseCount = 0
        /\ posts = <<>> /\ calls = <<>> /\ events = <<>>

C2_Witness == CredentialAbsent /\ pc = "exited"

\* The texts among the inputs whose bytes are no transaction.
UndecodableValues ==
    {v \in SignedTransactionValues :
        zString(v) /\ ~IsTransactionBytes(fromBase64(v.chars))}

UndecodableInput(args) ==
    /\ sendTransactionSchema(args)
    /\ args.signedTransaction \in UndecodableValues

\* C3: a send-transaction whose signedTransaction text does not decode to
\* transaction bytes ends at once with a DecodeError: exactly one event, not a
\* success, not a GatewayError, and no ledger call issued for it.
C3_UndecodableBytesFailDecode ==
    \A id \in CallsOf("send-transaction") :
        UndecodableInput(calls[id].args) =>
            /\ calls[id].pc = "done"
            /\ calls[id].gateway = <<>>
            /\ Cardinality(EventsOf(id)) = 1
            /\ \A i \in EventsOf(id) :
                   /\ ~Succeeded(events[i])
                   /\ FailedWith(events[i], "DecodeError")
                   /\ ~FailedWith(events[i], "GatewayError")

C3_Witness ==
    \E id \in CallsOf("send-transaction") :
        /\ UndecodableInput(calls[id].args)
        /\ EventsOf(id) # {}

UnknownAccountInput(args) ==
    /\ checkBalanceSchema(args)
    /\ ParsesAccountId(args.accountId.s)
    /\ AccountNum(args.accountId.s) \notin DOMAIN ledger

\* C4: a check-balance for an account the ledger does not know ends with a
\* GatewayError, never with a success text (of balance zero or any other).
C4_UnknownAccountFails ==
    \A id \in CallsOf("check-balance") :
        UnknownAccountInput(calls[id].args) =>
            \A i \in EventsOf(id) :
                /\ ~Succeeded(events[i])
                /\ FailedWith(events[i], "GatewayError")

C4_Witness ==
    \E id \in CallsOf("check-balance") :
        /\ UnknownAccountInput(calls[id].args)
        /\ "AccountBalanceQuery.execute" \in {calls[id].gateway[k] : k \in DOMAIN calls[id].gateway}
        /\ EventsOf(id) # {}

NonEmptyString(v) == v.t = "string" /\ v.s # ""
SignedInteger(v) == v.t = "number" /\ IsInteger(v)

ViolatesContract(tool, args) ==
    CASE tool = "create-wallet" -> FALSE
      [] tool = "check-balance" -> ~NonEmptyString(args.accountId)
      [] tool = "build-transaction" ->
             \/ ~NonEmptyString(args.senderAccountId)
             \/ ~NonEmptyString(args.recipientAccountId)
             \/ ~SignedInteger(args.amount)
      [] tool = "send-transaction" -> args.signedTransaction.t # "string"

\* C5: every invocation whose arguments violate the tool's input contract (an
\* account identifier that is not a non-empty string, an amount that is not a
\* signed integer, a signedTransaction that is not a string) is rejected with
\* a ValidationError before its handler runs, with no ledger call issued.
C5_ContractViolationsRejected ==
    \A id \in DOMAIN calls :
        ViolatesContract(calls[id].tool, calls[id].args) =>
            /\ calls[id].pc = "done"
            /\ calls[id].gateway = <<>>
            /\ \A i \in EventsOf(id) : FailedWith(events[i], "ValidationError")

SuccessShape(r) ==
    /\ DOMAIN r = {"isError", "content"}
    /\ ~r.isError
    /\ Len(r.content) = 1
    /\ DOMAIN r.content[1] = {"type", "text"}
    /\ r.content[1].type = "text"

ErrorShape(r) ==
    /\ DOMAIN r = {"isError", "kind", "message"}
    /\ r.isError
    /\ r.message # ""

\* C6: every completed invocation has produced exactly one event, which is
\* either a success of exactly one text block or an error payload carrying a
\* message and no content; an invocation still suspended has produced none.
C6_OneTextBlockOrError ==
    /\ \A i \in 1..Len(events) :
           /\ events[i].id \in DOMAIN calls
           /\ SuccessShape(events[i].result) \/ ErrorShape(events[i].result)
           /\ ~(SuccessShape(events[i].result) /\ ErrorShape(events[i].result))
    /\ \A id \in DOMAIN calls :
           Cardinality(EventsOf(id)) = IF calls[id].pc = "done" THEN 1 ELSE 0

C6_Witness ==
    /\ \E i \in 1..Len(events) :
           calls[events[i].id].tool = "create-wallet" /\ Succeeded(events[i])
    /\ \E i \in 1..Len(events) : FailedWith(events[i], "GatewayError")

\* C7: a step of a tool invocation (its dispatch or one of its resumptions)
\* leaves the transport binding, the ledger client and the rest of the
\* server's state as they were, and a completed invocation keeps none of its
\* locals (no transaction, no key).
C7_InvocationsKeepServerState ==
    /\ [][calls' # calls =>
              /\ transport' = transport
              /\ hederaClient' = hederaClient
              /\ sseCount' = sseCount
              /\ pc' = pc
              /\ env' = env]_vars
    /\ [](\A id \in DOMAIN calls : calls[id].pc = "done" => calls[id].local = NoLocals)

C7_Witness ==
    \E id \in CallsOf("create-wallet") :
        /\ calls[id].pc = "done"
        /\ \E i \in EventsOf(id) :
               Succeeded(events[i]) /\ TextOf(events[i]).privateKey = id
        /\ \E other \in CallsOf("send-transaction") :
               calls[other].pc = "done" /\ calls[other].gateway # <<>>

\* C8: the binding is the transport of the latest GET /sse and no other, and
\* every POST /messages that found a binding was handed to the transport of
\* the latest GET /sse before it; so was every invocation it dispatched.
C8_PostsGoToLatestStream ==
    /\ transport.id \in {0, sseCount}
    /\ sseCount > 0 => transport.id = sseCount
    /\ \A k \in 1..Len(posts) :
           /\ posts[k].to \in {0, posts[k].latest}
           /\ posts[k].latest > 0 => posts[k].to = posts[k].latest
    /\ \A id \in DOMAIN calls :
           calls[id].via = posts[id].latest /\ calls[id].via > 0

C8_Witness ==
    \E k \in 1..Len(posts) :
        /\ posts[k].latest = 2
        /\ posts[k].to = 2
        /\ k \in DOMAIN calls
        /\ \E j \in 1..Len(posts) : j < k /\ posts[j].to = 1

\* C9: a POST /messages that finds no transport bound invokes no handler,
\* pushes no event and leaves the binding unbound.
C9_UnboundPostDoesNothing ==
    /\ [][(Len(posts') > Len(posts) /\ transport.id = 0) =>
              /\ calls' = calls
              /\ events' = events
              /\ transport' = transport
              /\ hederaClient' = hederaClient
              /\ ledger' = ledger]_vars
    /\ [](\A k \in 1..Len(posts) :
              posts[k].to = 0 =>
                  /\ posts[k].status = "none"
                  /\ k \notin DOMAIN calls
                  /\ EventsOf(k) = {})

C9_Witness ==
    /\ Len(posts) = 2
    /\ posts[1].to = 0
    /\ posts[2].to = 1
    /\ 2 \in DOMAIN calls

\* C10: check-balance invocations in flight together do not block one another
\* (each suspended one can be resumed whatever the others do), and each
\* successful one reports the account identifier of its own argument and that
\* account's balance.
C10_ConcurrentBalancesIndependent ==
    /\ \A id \in CallsOf("check-balance") :
           calls[id].pc = "execute" => ENABLED CheckBalanceExecuted(id)
    /\ \A id \in CallsOf("check-balance") :
           \A i \in EventsOf(id) :
               Succeeded(events[i]) =>
                   /\ TextOf(events[i]).accountId = calls[id].args.accountId.s
                   /\ TextOf(events[i]).tinybars =
                          ledger[AccountNum(calls[id].args.accountId.s)]

\* Two invocations for different accounts, both answered, the later one first.
C10_Witness ==
    /\ {1, 2} \subseteq CallsOf("check-balance")
    /\ Len(events) = 2
    /\ events[1].id = 2 /\ events[2].id = 1
    /\ Succeeded(events[1]) /\ Succeeded(events[2])
    /\ TextOf(events[1]).accountId # TextOf(events[2]).accountId
    /\ TextOf(events[1]).tinybars # TextOf(events[2]).tinybars

\* The text of a send-transaction is one that build-transaction returned.
ReturnedByBuild(args) ==
    /\ sendTransactionSchema(args)
    /\ \E i \in 1..Len(events) :
           /\ calls[events[i].id].tool = "build-transaction"
           /\ Succeeded(events[i])
           /\ TextOf(events[i]).base64 = args.signedTransaction.chars

\* C11: a send-transaction given the text build-transaction returned, with no
\* signature appended, never succeeds; and the server adds no signature: what
\* build-transaction returns carries none, and the transaction send-transaction
\* submits carries exactly those of the text it was given.
C11_UnsignedNeverSubmitted ==
    /\ \A id \in CallsOf("send-transaction") :
           ReturnedByBuild(calls[id].args) =>
               \A i \in EventsOf(id) : ~Succeeded(events[i])
    /\ \A i \in 1..Len(events) :
           (calls[events[i].id].tool = "build-transaction" /\ Succeeded(events[i])) =>
               fromBytes(fromBase64(TextOf(events[i]).base64)).sigs = <<>>
    /\ \A id \in CallsOf("send-transaction") :
           calls[id].pc \in {"execute", "getReceipt"} =>
               calls[id].local.signedTx.sigs =
                   fromBytes(fromBase64(calls[id].args.signedTransaction.chars)).sigs

RECURSIVE GCD(_, _)
GCD(a, b) == IF b = 0 THEN a ELSE GCD(b, a % b)

\* A rational in lowest terms.
Reduced(x) ==
    LET g == GCD(Abs(x.num), x.den)
    IN  IF g = 0 THEN x ELSE Num(x.num \div g, x.den \div g)

\* The amount of a leg is that many tinybars.
IsTinybars(amount, tinybars) == Reduced(amount) = Reduced(Num(tinybars, TinybarsPerHbar))

NewAccounts == DOMAIN ledger \ DOMAIN InitialLedger

\* A build-transaction from a newly created account to the operator, for the
\* balance check-balance reports for that account.
BalanceHandedBack(args) ==
    /\ BuildableInput(args)
    /\ AccountNum(args.senderAccountId.s) \in NewAccounts
    /\ args.recipientAccountId = hederaClient.operatorId
    /\ \E answer \in QueryBalanceAnswers(AccountNum(args.senderAccountId.s)) :
           /\ answer.ok
           /\ args.amount = Num(answer.balance, 1)

\* C12: a build-transaction from a newly created account to the operator, for
\* the balance b that check-balance reports for the account, returns base64
\* text; the bytes decoded from it are those of the frozen transfer, and the
\* transfer has exactly two legs, -b tinybars on the account and +b tinybars
\* on the operator.
C12_BuildOfBalanceInSmallestUnit ==
    \A id \in CallsOf("build-transaction") :
        BalanceHandedBack(calls[id].args) =>
            \A i \in EventsOf(id) :
                /\ Succeeded(events[i])
                /\ LET args == calls[id].args
                       base64Tx == TextOf(events[i]).base64
                       txBytes == fromBase64(base64Tx)
                       frozenTx == freezeWith(BuildTransfer(args.senderAccountId.s,
                                                            args.recipientAccountId.s,
                                                            args.amount), hederaClient)
                       b == ledger[AccountNum(args.senderAccountId.s)]
                   IN  /\ \A k \in 1..Len(base64Tx) : base64Tx[k] \in 0..64
                       /\ txBytes = toBytes(frozenTx)
                       /\ IsTransactionBytes(txBytes)
                       /\ Len(fromBytes(txBytes).transfers) = 2
                       /\ fromBytes(txBytes).transfers[1].accountId =
                              AccountNum(args.senderAccountId.s)
                       /\ IsTinybars(fromBytes(txBytes).transfers[1].amount, 0 - b)
                       /\ fromBytes(txBytes).transfers[2].accountId =
                              AccountNum(args.recipientAccountId.s)
                       /\ IsTinybars(fromBytes(txBytes).transfers[2].amount, b)

\* C13: the transport binding is unbound exactly until the first GET /sse;
\* once bound, no step (an invocation, a failed connect, the closure of the
\* client's stream) unbinds it or moves it back to an earlier transport, and
\* every POST /messages received after a GET /sse is handed to the last
\* created transport, also when that transport's stream has closed.
C13_BindingMonotone ==
    /\ [](transport.id = 0 <=> sseCount = 0)
    /\ [][transport.id # 0 =>
              /\ transport'.id # 0
              /\ transport'.id >= transport.id]_vars
    /\ [][transport'.id # transport.id =>
              /\ sseCount' = sseCount + 1
              /\ transport'.id = sseCount']_vars
    /\ [](\A k \in 1..Len(posts) :
              posts[k].latest > 0 =>
                  /\ posts[k].to = posts[k].latest
                  /\ posts[k].status # "none")

\* A POST /messages handed to the bound transport after its stream closed.
C13_Witness ==
    \E k \in 1..Len(posts) :
        /\ posts[k].closed
        /\ posts[k].to > 0
        /\ posts[k].to = posts[k].latest
        /\ transport.id = posts[k].to

====
